---- MODULE Spec2Model ----
(***************************************************************************)
(* Epic Events CRM: the authentication / session core (auth_controller,   *)
(* utils), the permission table (permissions) and the contract and event  *)
(* controllers, as a state machine.                                        *)
(*                                                                         *)
(* Strings the code inspects character by character (emails, employee     *)
(* numbers, names, passwords) are sequences of one-character strings, so  *)
(* that lower(), strip(), len() and "@" in s are computed.  Exception      *)
(* messages are TLA+ strings, written without accents.                     *)
(* Optional arguments (Python None) are sequences of length at most one:  *)
(* None is << >>, a given value x is <<x>>.                                 *)
(* The clock counts whole hours.                                           *)
(***************************************************************************)
EXTENDS Integers, Sequences, FiniteSets, TLC

VARIABLES
    users,       \* the users table as the session sees it: users[id]
    token_file,  \* the content of TOKEN_FILE (.epic_token)
    now,         \* the wall clock, in ticks
    clients,     \* the clients table: clients[id]
    contracts,   \* the contracts table: contracts[id]
    events,      \* the events table: events[id]
    ret,         \* what the last call returned or raised
    lapsed,      \* history: the users whose is_active was set to false
                 \* since their last successful login
    flow         \* a get_authenticated_user call in progress in a second
                 \* process: where it stands and the token it has loaded

vars ==
    <<users, token_file, now, clients, contracts, events, ret, lapsed, flow>>

-----------------------------------------------------------------------------
(* Bounds of the model *)

MaxUsers == 2
MaxTime == 24
TickHours == 12
TicksPerSecond == 2
UnitsPerCent == 2
MaxClients == 2
MaxContracts == 1
MaxEvents == 1

-----------------------------------------------------------------------------
(* Strings *)

None == << >>
Some(x) == <<x>>
IsNone(o) == Len(o) = 0
Val(o) == o[1]

\* str.lower(), on the letters the model uses
LowerChar(c) ==
    CASE c = "A" -> "a"
      [] c = "B" -> "b"
      [] c = "X" -> "x"
      [] OTHER -> c

RECURSIVE Lower(_)
Lower(s) ==
    IF s = << >> THEN << >>
    ELSE <<LowerChar(Head(s))>> \o Lower(Tail(s))

\* str.strip() == "": nothing but white space
IsBlank(s) == \A i \in 1..Len(s) : s[i] = " "

\* "@" in s
HasAt(s) == \E i \in 1..Len(s) : s[i] = "@"

EmailA == <<"a", "@", "x">>
EmailAUpper == <<"A", "@", "x">>
EmailB == <<"b", "@", "x">>
EmailNoAt == <<"a", "x">>

Emp1 == <<"E", "1">>
Emp2 == <<"E", "2">>
Emp3 == <<"E", "3">>

NameAlice == <<"A", "l">>
NameBob == <<"B", "o">>

Pw1 == <<"p", "w", "1", "2", "3", "4", "5", "6">>
Pw2 == <<"s", "e", "c", "r", "e", "t", "9", "9">>
PwShort == <<"w", "r", "o", "n", "g">>

-----------------------------------------------------------------------------
(* models.RoleEnum *)

MANAGEMENT == "management"
SALES == "sales"
SUPPORT == "support"
RoleEnum == {MANAGEMENT, SALES, SUPPORT}

-----------------------------------------------------------------------------
(* utils: password hashing.  bcrypt's hash embeds its salt; what the code  *)
(* relies on is that checkpw accepts exactly the password that was hashed, *)
(* and that checkpw raises ValueError ("Invalid salt") for a string that   *)
(* is no bcrypt hash.                                                      *)

hash_password(password) == [alg |-> "bcrypt", of |-> password]

\* verify_password: the boolean it returns, or the exception of checkpw,
\* which it does not catch
verify_password(password, password_hash) ==
    IF password_hash.alg # "bcrypt"
    THEN [exc |-> "ValueError", value |-> FALSE]
    ELSE [exc |-> "", value |-> password_hash.of = password]

-----------------------------------------------------------------------------
(* utils: JWT session tokens *)

JWT_EXPIRATION_HOURS == 24

\* The clock counts ticks, TicksPerSecond of them to the second:
\* datetime.now() is finer than the second.
Hours(h) == h * 3600 * TicksPerSecond

\* jwt.encode writes a datetime claim as a NumericDate, the whole seconds
\* since the epoch (timegm of the utctimetuple): the fraction is dropped.
NumericDate(t) == t \div TicksPerSecond

\* The instant, in ticks, at which a NumericDate falls
Instant(d) == d * TicksPerSecond

\* The empty file content; load_token() reads it as None.
NoToken ==
    [signed |-> FALSE, sub |-> 0, employee_number |-> << >>, role |-> "",
     iat |-> 0, exp |-> 0]

\* No call in progress in the second process
Idle == [pc |-> "idle", token |-> NoToken]

create_access_token(user_id, employee_number, role, t) ==
    [signed |-> TRUE, sub |-> user_id, employee_number |-> employee_number,
     role |-> role, iat |-> NumericDate(t),
     exp |-> NumericDate(t + Hours(JWT_EXPIRATION_HOURS))]

\* jwt.decode accepting a token at the very instant of its exp (mutant)
JwtDecode_StrictlyAfter(token, t) ==
    IF ~token.signed THEN "invalid"
    ELSE IF Instant(token.exp) < t THEN "expired"
    ELSE "ok"

\* jwt.decode: the signature is verified first, then exp against the clock
\* (now = datetime.now(utc).timestamp(), expired when exp <= now).
\* "invalid" and "expired" are the two exceptions; "ok" returns the payload.
JwtDecode(token, t) ==
    IF ~token.signed THEN "invalid"
    ELSE IF Instant(token.exp) <= t THEN "expired"
    ELSE "ok"

\* decode_access_token: the payload, or None for either exception
decode_access_token(token, t) ==
    IF JwtDecode(token, t) = "ok" THEN Some(token) ELSE None

is_token_expired(token, t) == JwtDecode(token, t) # "ok"

\* load_token: None when the file is empty
load_token(file) == IF file = NoToken THEN None ELSE Some(file)

\* save_token writing only when the file is empty (mutant)
save_token_KeepFirst(file, token) == IF file.signed THEN file ELSE token

\* save_token: the file is overwritten
save_token(file, token) == token

\* clear_token: the file is emptied
clear_token(file) == NoToken

\* get_valid_token leaving a bad token in the file (mutant)
get_valid_token_NoClear(file, t) ==
    LET token == load_token(file) IN
    IF IsNone(token) THEN [token |-> None, error |-> "not_found", file |-> file]
    ELSE IF JwtDecode(Val(token), t) = "ok"
         THEN [token |-> token, error |-> "", file |-> file]
    ELSE IF JwtDecode(Val(token), t) = "expired"
         THEN [token |-> None, error |-> "expired", file |-> file]
    ELSE [token |-> None, error |-> "invalid", file |-> file]

\* get_valid_token: the token, the error, and the file afterwards
get_valid_token(file, t) ==
    LET token == load_token(file) IN
    IF IsNone(token) THEN [token |-> None, error |-> "not_found", file |-> file]
    ELSE IF JwtDecode(Val(token), t) = "ok"
         THEN [token |-> token, error |-> "", file |-> file]
    ELSE IF JwtDecode(Val(token), t) = "expired"
         THEN [token |-> None, error |-> "expired", file |-> clear_token(file)]
    ELSE [token |-> None, error |-> "invalid", file |-> clear_token(file)]

-----------------------------------------------------------------------------
(* What a call returned or raised *)

\* op: the function called; exc, msg: the exception raised ("" when none);
\* id: the id of the row returned (0 when none); token: the token returned
Ret(op, exc, msg, id, token) ==
    [op |-> op, exc |-> exc, msg |-> msg, id |-> id, token |-> token]

Ok(op) == Ret(op, "", "", 0, NoToken)
OkRow(op, id) == Ret(op, "", "", id, NoToken)
Raise(op, exc, msg) == Ret(op, exc, msg, 0, NoToken)

MsgBadCredentials == "Email ou mot de passe incorrect"
MsgDeactivated == "Ce compte a ete desactive"
MsgPleaseLogin == "Veuillez vous connecter"
MsgExpired == "Session expiree, veuillez vous reconnecter"
MsgInvalid == "Session invalide, veuillez vous reconnecter"
MsgUserGone == "Utilisateur introuvable, veuillez vous reconnecter"

-----------------------------------------------------------------------------
(* The users table *)

UserIds == DOMAIN users

\* db.query(User).filter(User.email == e).first(): the id, or 0
UserByEmail(e) ==
    IF \E i \in UserIds : users[i].email = e
    THEN CHOOSE i \in UserIds :
            /\ users[i].email = e
            /\ \A j \in UserIds : users[j].email = e => i <= j
    ELSE 0

UserByEmployeeNumber(n) ==
    IF \E i \in UserIds : users[i].employee_number = n
    THEN CHOOSE i \in UserIds :
            /\ users[i].employee_number = n
            /\ \A j \in UserIds : users[j].employee_number = n => i <= j
    ELSE 0

UnchangedCrm == UNCHANGED <<clients, contracts, events, flow>>
UnchangedSession == UNCHANGED <<token_file, now>>

-----------------------------------------------------------------------------
(* auth_controller *)

\* The outcome of register_user: the exception, or the table with the new row
RegisterResult(employee_number, full_name, email, password, role) ==
    IF UserByEmail(Lower(email)) # 0
    THEN [ret |-> Raise("register_user", "ValueError",
                        "Cette adresse email est deja utilisee"),
          users |-> users]
    ELSE IF UserByEmployeeNumber(employee_number) # 0
    THEN [ret |-> Raise("register_user", "ValueError",
                        "Ce numero d'employe existe deja"),
          users |-> users]
    ELSE [ret |-> OkRow("register_user", Len(users) + 1),
          users |-> Append(users,
              [employee_number |-> employee_number,
               full_name |-> full_name,
               email |-> Lower(email),
               password_hash |-> hash_password(password),
               role |-> role,
               is_active |-> TRUE])]

register_user(employee_number, full_name, email, password, role) ==
    LET r == RegisterResult(employee_number, full_name, email, password, role)
    IN
    /\ Len(users) < MaxUsers
    /\ ret' = r.ret
    /\ users' = r.users
    /\ UNCHANGED lapsed
    /\ UnchangedSession
    /\ UnchangedCrm

\* authenticate_user without the is_active check (mutant)
AuthenticateResult_NoActiveCheck(email, password) ==
    LET id == UserByEmail(Lower(email)) IN
    IF id = 0
    THEN Raise("authenticate_user", "AuthenticationError", MsgBadCredentials)
    ELSE IF verify_password(password, users[id].password_hash).exc # ""
    THEN Raise("authenticate_user",
               verify_password(password, users[id].password_hash).exc,
               "Invalid salt")
    ELSE IF ~verify_password(password, users[id].password_hash).value
    THEN Raise("authenticate_user", "AuthenticationError", MsgBadCredentials)
    ELSE Ret("authenticate_user", "", "", id,
             create_access_token(id, users[id].employee_number,
                                 users[id].role, now))

\* The outcome of authenticate_user: the exception, or the user and token
AuthenticateResult(email, password) ==
    LET id == UserByEmail(Lower(email)) IN
    IF id = 0
    THEN Raise("authenticate_user", "AuthenticationError", MsgBadCredentials)
    ELSE IF ~users[id].is_active
    THEN Raise("authenticate_user", "AuthenticationError", MsgDeactivated)
    ELSE IF verify_password(password, users[id].password_hash).exc # ""
    THEN Raise("authenticate_user",
               verify_password(password, users[id].password_hash).exc,
               "Invalid salt")
    ELSE IF ~verify_password(password, users[id].password_hash).value
    THEN Raise("authenticate_user", "AuthenticationError", MsgBadCredentials)
    ELSE Ret("authenticate_user", "", "", id,
             create_access_token(id, users[id].employee_number,
                                 users[id].role, now))

\* authenticate_user that does not persist the token (mutant)
authenticate_user_NoSave(email, password) ==
    LET r == AuthenticateResult(email, password) IN
    /\ ret' = r
    /\ lapsed' = IF r.exc = "" THEN lapsed \ {r.id} ELSE lapsed
    /\ UNCHANGED <<users, now, token_file>>
    /\ UnchangedCrm

\* authenticate_user that empties the token file when the login fails
\* (mutant)
authenticate_user_ClearsOnFailure(email, password) ==
    LET r == AuthenticateResult(email, password) IN
    /\ ret' = r
    /\ token_file' = IF r.exc = "" THEN save_token(token_file, r.token)
                     ELSE clear_token(token_file)
    /\ lapsed' = IF r.exc = "" THEN lapsed \ {r.id} ELSE lapsed
    /\ UNCHANGED <<users, now>>
    /\ UnchangedCrm

authenticate_user(email, password) ==
    LET r == AuthenticateResult(email, password) IN
    /\ ret' = r
    /\ token_file' = IF r.exc = "" THEN save_token(token_file, r.token)
                     ELSE token_file
    /\ lapsed' = IF r.exc = "" THEN lapsed \ {r.id} ELSE lapsed
    /\ UNCHANGED <<users, now>>
    /\ UnchangedCrm

\* get_current_user without the is_active check (mutant)
get_current_user_NoActiveCheck(token) ==
    LET payload == decode_access_token(token, now) IN
    IF IsNone(payload) THEN 0
    ELSE LET user_id == Val(payload).sub IN
         IF user_id \notin UserIds THEN 0 ELSE user_id

\* get_current_user: the id of the user the token names, or 0 for None
get_current_user(token) ==
    LET payload == decode_access_token(token, now) IN
    IF IsNone(payload) THEN 0
    ELSE LET user_id == Val(payload).sub IN
         IF user_id \notin UserIds THEN 0
         ELSE IF ~users[user_id].is_active THEN 0
         ELSE user_id

\* The outcome of get_authenticated_user, and the file it leaves
GetAuthenticatedResult ==
    LET v == get_valid_token(token_file, now) IN
    IF v.error = "not_found"
    THEN [ret |-> Raise("get_authenticated_user", "AuthenticationError",
                        MsgPleaseLogin), file |-> v.file]
    ELSE IF v.error = "expired"
    THEN [ret |-> Raise("get_authenticated_user", "AuthenticationError",
                        MsgExpired), file |-> v.file]
    ELSE IF v.error = "invalid"
    THEN [ret |-> Raise("get_authenticated_user", "AuthenticationError",
                        MsgInvalid), file |-> v.file]
    ELSE LET user == get_current_user(Val(v.token)) IN
         IF user = 0
         THEN [ret |-> Raise("get_authenticated_user", "AuthenticationError",
                             MsgUserGone), file |-> clear_token(v.file)]
         ELSE [ret |-> OkRow("get_authenticated_user", user), file |-> v.file]

get_authenticated_user ==
    /\ ret' = GetAuthenticatedResult.ret
    /\ token_file' = GetAuthenticatedResult.file
    /\ UNCHANGED <<users, now, lapsed>>
    /\ UnchangedCrm

\* utils.get_valid_token called on its own
GetValidToken ==
    LET v == get_valid_token(token_file, now) IN
    /\ ret' = Ret("get_valid_token", "", v.error, 0,
                  IF IsNone(v.token) THEN NoToken ELSE Val(v.token))
    /\ token_file' = v.file
    /\ UNCHANGED <<users, now, lapsed>>
    /\ UnchangedCrm

\* utils.clear_token called on its own (logout)
ClearToken ==
    /\ token_file' = clear_token(token_file)
    /\ ret' = Ok("clear_token")
    /\ UNCHANGED <<users, now, lapsed>>
    /\ UnchangedCrm

\* change_password that does not check the old password (mutant)
change_password_NoVerify(user, old_password, new_password) ==
    /\ user \in UserIds
    /\ users' = [users EXCEPT
            ![user].password_hash = hash_password(new_password)]
    /\ ret' = Ok("change_password")
    /\ UNCHANGED lapsed
    /\ UnchangedSession
    /\ UnchangedCrm

change_password(user, old_password, new_password) ==
    /\ user \in UserIds
    /\ IF verify_password(old_password, users[user].password_hash).exc # ""
       THEN /\ ret' = Raise("change_password",
                     verify_password(old_password,
                                     users[user].password_hash).exc,
                     "Invalid salt")
            /\ UNCHANGED users
       ELSE IF ~verify_password(old_password, users[user].password_hash).value
       THEN /\ ret' = Raise("change_password", "AuthenticationError",
                            "Mot de passe actuel incorrect")
            /\ UNCHANGED users
       ELSE /\ users' = [users EXCEPT
                   ![user].password_hash = hash_password(new_password)]
            /\ ret' = Ok("change_password")
    /\ UNCHANGED lapsed
    /\ UnchangedSession
    /\ UnchangedCrm

\* deactivate_user that also empties the token file (mutant)
deactivate_user_Revokes(user) ==
    /\ user \in UserIds
    /\ users' = [users EXCEPT ![user].is_active = FALSE]
    /\ ret' = Ok("deactivate_user")
    /\ lapsed' = lapsed \cup {user}
    /\ token_file' = clear_token(token_file)
    /\ UNCHANGED now
    /\ UnchangedCrm

deactivate_user(user) ==
    /\ user \in UserIds
    /\ users' = [users EXCEPT ![user].is_active = FALSE]
    /\ ret' = Ok("deactivate_user")
    /\ lapsed' = lapsed \cup {user}
    /\ UnchangedSession
    /\ UnchangedCrm

\* update_user, field by field.  Each stage returns the table so far and the
\* message of the ValueError it raised ("" when it raised none): a field
\* assigned before a later check fails stays assigned on the session's object.
UpdateEmployeeNumber(us, user_id, employee_number) ==
    IF IsNone(employee_number) THEN [us |-> us, err |-> ""]
    ELSE IF IsBlank(Val(employee_number))
    THEN [us |-> us, err |-> "Le numero d'employe ne peut pas etre vide"]
    ELSE IF \E j \in DOMAIN us :
                j # user_id /\ us[j].employee_number = Val(employee_number)
    THEN [us |-> us, err |-> "Ce numero d'employe est deja utilise"]
    ELSE [us |-> [us EXCEPT ![user_id].employee_number = Val(employee_number)],
          err |-> ""]

UpdateFullName(us, user_id, full_name) ==
    IF IsNone(full_name) THEN [us |-> us, err |-> ""]
    ELSE IF IsBlank(Val(full_name))
    THEN [us |-> us, err |-> "Le nom complet ne peut pas etre vide"]
    ELSE [us |-> [us EXCEPT ![user_id].full_name = Val(full_name)], err |-> ""]

UpdateEmail(us, user_id, email) ==
    IF IsNone(email) THEN [us |-> us, err |-> ""]
    ELSE IF IsBlank(Val(email)) \/ ~HasAt(Val(email))
    THEN [us |-> us, err |-> "L'email est invalide"]
    ELSE IF \E j \in DOMAIN us : j # user_id /\ us[j].email = Val(email)
    THEN [us |-> us, err |-> "Cet email est deja utilise"]
    ELSE [us |-> [us EXCEPT ![user_id].email = Val(email)], err |-> ""]

UpdateRoleAndActive(us, user_id, role, is_active) ==
    LET a == IF IsNone(role) THEN us
             ELSE [us EXCEPT ![user_id].role = Val(role)]
    IN IF IsNone(is_active) THEN a
       ELSE [a EXCEPT ![user_id].is_active = Val(is_active)]

\* update_user with the lookup before the role check (mutant)
UpdateUserResult_LookupFirst(current_user, user_id, employee_number, full_name, email, role, is_active) ==
    IF user_id \notin UserIds
    THEN [ret |-> Raise("update_user", "ValueError", "Collaborateur non trouve"),
          users |-> users]
    ELSE IF users[current_user].role # MANAGEMENT
    THEN [ret |-> Raise("update_user", "ValueError",
                        "Seul le management peut modifier des collaborateurs"),
          users |-> users]
    ELSE
    LET a == UpdateEmployeeNumber(users, user_id, employee_number)
        b == UpdateFullName(a.us, user_id, full_name)
        c == UpdateEmail(b.us, user_id, email)
    IN IF a.err # ""
       THEN [ret |-> Raise("update_user", "ValueError", a.err), users |-> a.us]
       ELSE IF b.err # ""
       THEN [ret |-> Raise("update_user", "ValueError", b.err), users |-> b.us]
       ELSE IF c.err # ""
       THEN [ret |-> Raise("update_user", "ValueError", c.err), users |-> c.us]
       ELSE [ret |-> OkRow("update_user", user_id),
             users |-> UpdateRoleAndActive(c.us, user_id, role, is_active)]

\* The outcome of update_user: the exception or the user, and the table
UpdateUserResult(current_user, user_id, employee_number, full_name, email, role, is_active) ==
    IF users[current_user].role # MANAGEMENT
    THEN [ret |-> Raise("update_user", "ValueError",
                        "Seul le management peut modifier des collaborateurs"),
          users |-> users]
    ELSE IF user_id \notin UserIds
    THEN [ret |-> Raise("update_user", "ValueError", "Collaborateur non trouve"),
          users |-> users]
    ELSE
    LET a == UpdateEmployeeNumber(users, user_id, employee_number)
        b == UpdateFullName(a.us, user_id, full_name)
        c == UpdateEmail(b.us, user_id, email)
    IN IF a.err # ""
       THEN [ret |-> Raise("update_user", "ValueError", a.err), users |-> a.us]
       ELSE IF b.err # ""
       THEN [ret |-> Raise("update_user", "ValueError", b.err), users |-> b.us]
       ELSE IF c.err # ""
       THEN [ret |-> Raise("update_user", "ValueError", c.err), users |-> c.us]
       ELSE [ret |-> OkRow("update_user", user_id),
             users |-> UpdateRoleAndActive(c.us, user_id, role, is_active)]

update_user(current_user, user_id, employee_number, full_name, email, role, is_active) ==
    LET r == UpdateUserResult(current_user, user_id, employee_number,
                              full_name, email, role, is_active)
    IN
    /\ current_user \in UserIds
    /\ ret' = r.ret
    /\ users' = r.users
    /\ lapsed' = lapsed \cup {i \in UserIds : users[i].is_active
                                              /\ ~r.users[i].is_active}
    /\ UnchangedSession
    /\ UnchangedCrm

\* create_user without the password length check (mutant)
CreateUserResult_AnyPassword(current_user, employee_number, full_name, email, password, role) ==
    LET Refuse(msg) == [ret |-> Raise("create_user", "ValueError", msg),
                        users |-> users]
        r == RegisterResult(employee_number, full_name, email, password, role)
    IN
    IF users[current_user].role # MANAGEMENT
    THEN Refuse("Seul le management peut creer des collaborateurs")
    ELSE IF IsBlank(employee_number)
    THEN Refuse("Le numero d'employe est obligatoire")
    ELSE IF IsBlank(full_name)
    THEN Refuse("Le nom complet est obligatoire")
    ELSE IF IsBlank(email) \/ ~HasAt(email)
    THEN Refuse("L'email est invalide")
    ELSE IF UserByEmployeeNumber(employee_number) # 0
    THEN Refuse("Ce numero d'employe existe deja")
    ELSE IF UserByEmail(email) # 0
    THEN Refuse("Cet email est deja utilise")
    ELSE [ret |-> [r.ret EXCEPT !.op = "create_user"], users |-> r.users]

\* The outcome of create_user: the role check, the validation, its own
\* uniqueness queries (the email as given), then register_user
CreateUserResult(current_user, employee_number, full_name, email, password, role) ==
    LET Refuse(msg) == [ret |-> Raise("create_user", "ValueError", msg),
                        users |-> users]
        r == RegisterResult(employee_number, full_name, email, password, role)
    IN
    IF users[current_user].role # MANAGEMENT
    THEN Refuse("Seul le management peut creer des collaborateurs")
    ELSE IF IsBlank(employee_number)
    THEN Refuse("Le numero d'employe est obligatoire")
    ELSE IF IsBlank(full_name)
    THEN Refuse("Le nom complet est obligatoire")
    ELSE IF IsBlank(email) \/ ~HasAt(email)
    THEN Refuse("L'email est invalide")
    ELSE IF Len(password) < 8
    THEN Refuse("Le mot de passe doit contenir au moins 8 caracteres")
    ELSE IF UserByEmployeeNumber(employee_number) # 0
    THEN Refuse("Ce numero d'employe existe deja")
    ELSE IF UserByEmail(email) # 0
    THEN Refuse("Cet email est deja utilise")
    ELSE [ret |-> [r.ret EXCEPT !.op = "create_user"], users |-> r.users]

create_user(current_user, employee_number, full_name, email, password, role) ==
    LET r == CreateUserResult(current_user, employee_number, full_name, email,
                              password, role)
    IN
    /\ current_user \in UserIds
    /\ Len(r.users) <= MaxUsers
    /\ ret' = r.ret
    /\ users' = r.users
    /\ UNCHANGED lapsed
    /\ UnchangedSession
    /\ UnchangedCrm

-----------------------------------------------------------------------------
(* permissions *)

\* The table with event.update granted to support as well (mutant)
PERMISSIONS_SupportUpdatesAll ==
    [r \in RoleEnum |->
        CASE r = MANAGEMENT ->
                {"user.create", "user.read", "user.update", "user.delete",
                 "client.read", "contract.read", "contract.update",
                 "event.read", "event.update"}
          [] r = SALES ->
                {"client.create", "client.read", "client.update_own",
                 "contract.create", "contract.read", "contract.update_own",
                 "event.create", "event.read"}
          [] r = SUPPORT ->
                {"client.read", "contract.read", "event.read",
                 "event.update", "event.update_own"}]

PERMISSIONS ==
    [r \in RoleEnum |->
        CASE r = MANAGEMENT ->
                {"user.create", "user.read", "user.update", "user.delete",
                 "client.read", "contract.read", "contract.update",
                 "event.read", "event.update"}
          [] r = SALES ->
                {"client.create", "client.read", "client.update_own",
                 "contract.create", "contract.read", "contract.update_own",
                 "event.create", "event.read"}
          [] r = SUPPORT ->
                {"client.read", "contract.read", "event.read",
                 "event.update_own"}]

\* The permissions of the role claim of the session token, whatever the
\* user's stored role (mutant)
get_user_permissions_TokenRole(user) ==
    IF token_file.role \in DOMAIN PERMISSIONS THEN PERMISSIONS[token_file.role]
    ELSE {}

\* PERMISSIONS.get(user.role, [])
get_user_permissions(user) ==
    IF user.role \in DOMAIN PERMISSIONS THEN PERMISSIONS[user.role] ELSE {}

has_permission(user, permission) == permission \in get_user_permissions(user)

is_event_support(user_id, event) == event.support_contact_id = user_id

can_modify_event(user_id, event) ==
    IF users[user_id].role = MANAGEMENT THEN TRUE
    ELSE IF users[user_id].role = SUPPORT THEN is_event_support(user_id, event)
    ELSE FALSE

-----------------------------------------------------------------------------
(* client_controller *)

ClientIds == DOMAIN clients
ContractIds == DOMAIN contracts
EventIds == DOMAIN events

ClientEmail1 == <<"c", "@", "1">>
ClientEmail2 == <<"c", "@", "2">>

create_client(user, full_name, email) ==
    /\ user \in UserIds
    /\ Len(clients) < MaxClients
    /\ IF ~has_permission(users[user], "client.create")
       THEN /\ ret' = Raise("create_client", "ClientError", "permission")
            /\ UNCHANGED clients
       ELSE IF IsBlank(full_name)
       THEN /\ ret' = Raise("create_client", "ClientError",
                            "Le nom complet est obligatoire")
            /\ UNCHANGED clients
       ELSE IF IsBlank(email) \/ ~HasAt(email)
       THEN /\ ret' = Raise("create_client", "ClientError",
                            "L'email est invalide")
            /\ UNCHANGED clients
       ELSE IF \E i \in ClientIds : clients[i].email = email
       THEN /\ ret' = Raise("create_client", "ClientError", "email existe deja")
            /\ UNCHANGED clients
       ELSE /\ clients' = Append(clients,
                   [full_name |-> full_name, email |-> email,
                    sales_contact_id |-> user])
            /\ ret' = OkRow("create_client", Len(clients) + 1)
    /\ UNCHANGED <<users, token_file, now, contracts, events, lapsed, flow>>

-----------------------------------------------------------------------------
(* contract_controller *)

\* contract.client: the client row, or None when client_id is NULL
ContractClient(contract) ==
    IF contract.client_id \in ClientIds
    THEN Some(clients[contract.client_id]) ELSE None

\* Amounts are counted in units, UnitsPerCent of them to the cent: a Decimal
\* is finer than the cent.
Cents(n) == n * UnitsPerCent

\* What a Numeric(10, 2) column holds after commit and refresh: PostgreSQL
\* rounds the value to two decimals, a half away from zero.  (The amounts
\* of the model stay far below the ten digits of the column.)
Numeric(x) ==
    LET a == IF x < 0 THEN 0 - x ELSE x
        r == ((2 * a + UnitsPerCent) \div (2 * UnitsPerCent)) * UnitsPerCent
    IN IF x < 0 THEN 0 - r ELSE r

create_contract(user, client_id, total_amount, amount_due) ==
    /\ user \in UserIds
    /\ Len(contracts) < MaxContracts
    /\ IF ~has_permission(users[user], "contract.create")
       THEN /\ ret' = Raise("create_contract", "ContractError", "permission")
            /\ UNCHANGED contracts
       ELSE IF client_id \notin ClientIds
       THEN /\ ret' = Raise("create_contract", "ContractError",
                            "client non trouve")
            /\ UNCHANGED contracts
       ELSE IF /\ users[user].role = SALES
               /\ clients[client_id].sales_contact_id # user
       THEN /\ ret' = Raise("create_contract", "ContractError",
                            "pas votre client")
            /\ UNCHANGED contracts
       ELSE /\ contracts' = Append(contracts,
                   [client_id |-> client_id,
                    total_amount |-> Numeric(total_amount),
                    amount_due |-> IF IsNone(amount_due)
                                   THEN Numeric(total_amount)
                                   ELSE Numeric(Val(amount_due)),
                    is_signed |-> FALSE])
            /\ ret' = OkRow("create_contract", Len(contracts) + 1)
    /\ UNCHANGED <<users, token_file, now, clients, events, lapsed, flow>>

\* The check with contract.update_own granted on every contract (mutant)
CanUpdateContract_AnyOwner(user, contract) ==
    \/ has_permission(users[user], "contract.update")
    \/ has_permission(users[user], "contract.update_own")

\* The permission check of update_contract
CanUpdateContract(user, contract) ==
    IF has_permission(users[user], "contract.update") THEN TRUE
    ELSE IF has_permission(users[user], "contract.update_own")
    THEN /\ ~IsNone(ContractClient(contract))
         /\ Val(ContractClient(contract)).sales_contact_id = user
    ELSE FALSE

\* permissions.can_modify_contract: the boolean it returns, or the exception
\* it raises. contract.client is None for a contract without a client, and
\* None.sales_contact_id raises AttributeError.
can_modify_contract(user, contract) ==
    IF users[user].role = MANAGEMENT THEN [exc |-> "", value |-> TRUE]
    ELSE IF users[user].role = SALES
    THEN IF IsNone(ContractClient(contract))
         THEN [exc |-> "AttributeError", value |-> FALSE]
         ELSE [exc |-> "",
               value |-> Val(ContractClient(contract)).sales_contact_id = user]
    ELSE [exc |-> "", value |-> FALSE]

\* The outcome of update_contract: the exception or the contract, and the table
UpdateContractResult(user, contract_id, total_amount, amount_due, is_signed) ==
    IF contract_id \notin ContractIds
    THEN [ret |-> Raise("update_contract", "ContractError",
                        "contrat non trouve"),
          contracts |-> contracts]
    ELSE IF ~CanUpdateContract(user, contracts[contract_id])
    THEN [ret |-> Raise("update_contract", "ContractError", "permission"),
          contracts |-> contracts]
    ELSE
    LET c0 == contracts[contract_id]
        c1 == IF IsNone(total_amount) THEN c0
              ELSE [c0 EXCEPT !.total_amount = Numeric(Val(total_amount))]
        c2 == IF IsNone(amount_due) THEN c1
              ELSE [c1 EXCEPT !.amount_due = Numeric(Val(amount_due))]
        c3 == IF IsNone(is_signed) THEN c2
              ELSE [c2 EXCEPT !.is_signed = Val(is_signed)]
    IN [ret |-> OkRow("update_contract", contract_id),
        contracts |-> [contracts EXCEPT ![contract_id] = c3]]

update_contract(user, contract_id, total_amount, amount_due, is_signed) ==
    LET r == UpdateContractResult(user, contract_id, total_amount, amount_due,
                                  is_signed)
    IN
    /\ user \in UserIds
    /\ ret' = r.ret
    /\ contracts' = r.contracts
    /\ UNCHANGED <<users, token_file, now, clients, events, lapsed, flow>>

sign_contract(user, contract_id) ==
    update_contract(user, contract_id, None, None, Some(TRUE))

\* record_payment without the check of the amount against amount_due
\* (mutant)
record_payment_Overpay(user, contract_id, amount) ==
    /\ user \in UserIds
    /\ IF ~has_permission(users[user], "contract.read")
       THEN /\ ret' = Raise("record_payment", "ContractError",
                            "permission de consulter")
            /\ UNCHANGED contracts
       ELSE IF contract_id \notin ContractIds
       THEN /\ ret' = Raise("record_payment", "ContractError",
                            "contrat non trouve")
            /\ UNCHANGED contracts
       ELSE IF amount <= 0
       THEN /\ ret' = Raise("record_payment", "ContractError",
                            "Le montant du paiement doit etre positif")
            /\ UNCHANGED contracts
       ELSE LET r == UpdateContractResult(user, contract_id, None,
                        Some(contracts[contract_id].amount_due - amount), None)
            IN /\ ret' = [r.ret EXCEPT !.op = "record_payment"]
               /\ contracts' = r.contracts
    /\ UNCHANGED <<users, token_file, now, clients, events, lapsed, flow>>

record_payment(user, contract_id, amount) ==
    /\ user \in UserIds
    /\ IF ~has_permission(users[user], "contract.read")
       THEN /\ ret' = Raise("record_payment", "ContractError",
                            "permission de consulter")
            /\ UNCHANGED contracts
       ELSE IF contract_id \notin ContractIds
       THEN /\ ret' = Raise("record_payment", "ContractError",
                            "contrat non trouve")
            /\ UNCHANGED contracts
       ELSE IF amount <= 0
       THEN /\ ret' = Raise("record_payment", "ContractError",
                            "Le montant du paiement doit etre positif")
            /\ UNCHANGED contracts
       ELSE IF contracts[contract_id].amount_due - amount < 0
       THEN /\ ret' = Raise("record_payment", "ContractError",
                            "Le paiement depasse le montant restant du")
            /\ UNCHANGED contracts
       ELSE LET r == UpdateContractResult(user, contract_id, None,
                        Some(contracts[contract_id].amount_due - amount), None)
            IN /\ ret' = [r.ret EXCEPT !.op = "record_payment"]
               /\ contracts' = r.contracts
    /\ UNCHANGED <<users, token_file, now, clients, events, lapsed, flow>>

-----------------------------------------------------------------------------
(* event_controller *)

create_event(user, contract_id, event_date_start, event_date_end, location, attendees, notes) ==
    /\ user \in UserIds
    /\ Len(events) < MaxEvents
    /\ IF ~has_permission(users[user], "event.create")
       THEN /\ ret' = Raise("create_event", "EventError", "permission")
            /\ UNCHANGED events
       ELSE IF contract_id \notin ContractIds
       THEN /\ ret' = Raise("create_event", "EventError", "contrat non trouve")
            /\ UNCHANGED events
       ELSE IF ~contracts[contract_id].is_signed
       THEN /\ ret' = Raise("create_event", "EventError", "contrat non signe")
            /\ UNCHANGED events
       ELSE IF /\ users[user].role = SALES
               /\ ~IsNone(ContractClient(contracts[contract_id]))
               /\ Val(ContractClient(contracts[contract_id])).sales_contact_id
                     # user
       THEN /\ ret' = Raise("create_event", "EventError", "pas votre client")
            /\ UNCHANGED events
       ELSE IF event_date_end < event_date_start
       THEN /\ ret' = Raise("create_event", "EventError",
                   "La date de fin doit etre posterieure a la date de debut")
            /\ UNCHANGED events
       ELSE IF attendees < 1
       THEN /\ ret' = Raise("create_event", "EventError",
                   "Le nombre de participants doit etre au moins 1")
            /\ UNCHANGED events
       ELSE /\ events' = Append(events,
                   [contract_id |-> contract_id,
                    event_date_start |-> event_date_start,
                    event_date_end |-> event_date_end,
                    location |-> location,
                    attendees |-> attendees,
                    notes |-> notes,
                    support_contact_id |-> 0])
            /\ ret' = OkRow("create_event", Len(events) + 1)
    /\ UNCHANGED <<users, token_file, now, clients, contracts, lapsed, flow>>

\* The check with event.update_own granted on unassigned events too (mutant)
CanUpdateEvent_Unassigned(user, event) ==
    IF has_permission(users[user], "event.update") THEN TRUE
    ELSE IF has_permission(users[user], "event.update_own")
    THEN event.support_contact_id \in {0, user}
    ELSE FALSE

\* The permission check of update_event
CanUpdateEvent(user, event) ==
    IF has_permission(users[user], "event.update") THEN TRUE
    ELSE IF has_permission(users[user], "event.update_own")
    THEN event.support_contact_id = user
    ELSE FALSE

\* The outcome of update_event: the exception or the event, and the table.
\* The fields are assigned in order on the session's object, and a check
\* that fails raises with the earlier assignments made.
UpdateEventResult(user, event_id, event_date_start, event_date_end, location, attendees, notes) ==
    IF event_id \notin EventIds
    THEN [ret |-> Raise("update_event", "EventError", "evenement non trouve"),
          events |-> events]
    ELSE IF ~CanUpdateEvent(user, events[event_id])
    THEN [ret |-> Raise("update_event", "EventError", "permission"),
          events |-> events]
    ELSE
    LET e0 == events[event_id]
        e1 == IF IsNone(event_date_start) THEN e0
              ELSE [e0 EXCEPT !.event_date_start = Val(event_date_start)]
        e2 == IF IsNone(event_date_end) THEN e1
              ELSE [e1 EXCEPT !.event_date_end = Val(event_date_end)]
        e3 == IF IsNone(location) THEN e2
              ELSE [e2 EXCEPT !.location = Val(location)]
        e4 == IF IsNone(attendees) THEN e3
              ELSE [e3 EXCEPT !.attendees = Val(attendees)]
        e5 == IF IsNone(notes) THEN e4 ELSE [e4 EXCEPT !.notes = notes]
    IN IF ~IsNone(attendees) /\ Val(attendees) < 1
       THEN [ret |-> Raise("update_event", "EventError",
                   "Le nombre de participants doit etre au moins 1"),
             events |-> [events EXCEPT ![event_id] = e3]]
       ELSE IF e5.event_date_end < e5.event_date_start
       THEN [ret |-> Raise("update_event", "EventError",
                   "La date de fin doit etre posterieure a la date de debut"),
             events |-> [events EXCEPT ![event_id] = e5]]
       ELSE [ret |-> OkRow("update_event", event_id),
             events |-> [events EXCEPT ![event_id] = e5]]

update_event(user, event_id, event_date_start, event_date_end, location, attendees, notes) ==
    LET r == UpdateEventResult(user, event_id, event_date_start,
                               event_date_end, location, attendees, notes)
    IN
    /\ user \in UserIds
    /\ ret' = r.ret
    /\ events' = r.events
    /\ UNCHANGED <<users, token_file, now, clients, contracts, lapsed, flow>>

\* update_event called with the keyword support_contact_id, as main.py calls
\* it: the function has no such parameter, and the call raises TypeError
\* before the body runs.
update_event_support_contact_id(user, event_id, support_contact_id) ==
    /\ user \in UserIds
    /\ ret' = Raise("update_event", "TypeError",
                    "unexpected keyword argument 'support_contact_id'")
    /\ UNCHANGED <<users, token_file, now, clients, contracts, events, lapsed, flow>>

assign_support(user, event_id, support_id) ==
    /\ user \in UserIds
    /\ IF users[user].role # MANAGEMENT
       THEN /\ ret' = Raise("assign_support", "EventError",
                            "Seul le management peut assigner le support")
            /\ UNCHANGED events
       ELSE IF event_id \notin EventIds
       THEN /\ ret' = Raise("assign_support", "EventError",
                            "evenement non trouve")
            /\ UNCHANGED events
       ELSE IF support_id \notin UserIds
       THEN /\ ret' = Raise("assign_support", "EventError",
                            "utilisateur non trouve")
            /\ UNCHANGED events
       ELSE IF users[support_id].role # SUPPORT
       THEN /\ ret' = Raise("assign_support", "EventError",
                            "n'est pas membre du support")
            /\ UNCHANGED events
       ELSE IF ~users[support_id].is_active
       THEN /\ ret' = Raise("assign_support", "EventError", "n'est plus actif")
            /\ UNCHANGED events
       ELSE /\ events' = [events EXCEPT
                   ![event_id].support_contact_id = support_id]
            /\ ret' = OkRow("assign_support", event_id)
    /\ UNCHANGED <<users, token_file, now, clients, contracts, lapsed, flow>>

\* Time passes.
Tick ==
    /\ now + Hours(TickHours) <= Hours(MaxTime)
    /\ now' = now + Hours(TickHours)
    /\ ret' = Ok("tick")
    /\ UNCHANGED <<users, token_file, lapsed>>
    /\ UnchangedCrm

-----------------------------------------------------------------------------
(* The session specification: registration, login, session resolution,     *)
(* password change, deactivation and administrative update, over time.     *)

\* A token signed with another secret key (JWT_SECRET_KEY comes from the
\* environment), left in the file by an earlier run.
ForgedToken ==
    [signed |-> FALSE, sub |-> 1, employee_number |-> Emp1, role |-> MANAGEMENT,
     iat |-> 0, exp |-> NumericDate(Hours(JWT_EXPIRATION_HOURS))]

\* A well-signed token left in the file by an earlier run against a database
\* that has since been recreated: its subject is no row of the users table.
GhostId == MaxUsers + 1
GhostToken == create_access_token(GhostId, Emp3, SALES, 0)

InitialTokenFiles == {NoToken, ForgedToken, GhostToken}

Init ==
    /\ users = << >>
    /\ token_file \in InitialTokenFiles
    /\ now = 0
    /\ clients = << >>
    /\ contracts = << >>
    /\ events = << >>
    /\ ret = Ok("init")
    /\ lapsed = {}
    /\ flow = Idle

LoginEmails == {EmailAUpper, EmailB}
LoginPasswords == {Pw1, Pw2}
SessionRoles == {MANAGEMENT, SALES}

\* The update_user calls of the session specification: one field at a time
SessionUpdates ==
    {[employee_number |-> None, full_name |-> None, email |-> None,
      role |-> Some(r), is_active |-> None] : r \in SessionRoles}
    \cup
    {[employee_number |-> None, full_name |-> None, email |-> None,
      role |-> None, is_active |-> Some(b)] : b \in BOOLEAN}
    \cup
    {[employee_number |-> None, full_name |-> None, email |-> Some(EmailNoAt),
      role |-> None, is_active |-> None]}

\* The next unused employee number
NextEmployeeNumber == IF Len(users) = 0 THEN Emp1 ELSE Emp2

Register ==
    \E e \in LoginEmails, r \in SessionRoles :
        register_user(NextEmployeeNumber, NameAlice, e, Pw1, r)

Authenticate ==
    \E e \in LoginEmails, p \in LoginPasswords : authenticate_user(e, p)

ChangePassword ==
    \E u \in UserIds, o \in LoginPasswords : change_password(u, o, Pw2)

Deactivate == \E u \in UserIds : deactivate_user(u)

UpdateUser ==
    \E cu \in UserIds, id \in 1..MaxUsers, a \in SessionUpdates :
        update_user(cu, id, a.employee_number, a.full_name, a.email, a.role,
                    a.is_active)

Next ==
    \/ Register
    \/ Authenticate
    \/ get_authenticated_user
    \/ GetValidToken
    \/ ClearToken
    \/ ChangePassword
    \/ Deactivate
    \/ UpdateUser
    \/ Tick

Spec == Init /\ [][Next]_vars

-----------------------------------------------------------------------------
(* The contract and event specifications: a staff registered beforehand    *)
(* (one manager, two salespeople, two support agents) works on clients,    *)
(* contracts and events.                                                   *)

StaffMember(n, e, r) ==
    [employee_number |-> n, full_name |-> NameAlice, email |-> e,
     password_hash |-> hash_password(Pw1), role |-> r, is_active |-> TRUE]

Staff ==
    << StaffMember(<<"M", "1">>, <<"m", "@", "x">>, MANAGEMENT),
       StaffMember(<<"S", "1">>, <<"s", "@", "x">>, SALES),
       StaffMember(<<"S", "2">>, <<"t", "@", "x">>, SALES),
       StaffMember(<<"P", "1">>, <<"p", "@", "x">>, SUPPORT),
       StaffMember(<<"P", "2">>, <<"q", "@", "x">>, SUPPORT) >>

\* A contract whose client_id is NULL (the column is nullable)
OrphanContract ==
    [client_id |-> 0, total_amount |-> Cents(1), amount_due |-> Cents(1),
     is_signed |-> FALSE]

InitCrm ==
    /\ users = Staff
    /\ token_file = NoToken
    /\ now = 0
    /\ clients = << >>
    /\ contracts \in {<< >>, <<OrphanContract>>}
    /\ events = << >>
    /\ ret = Ok("init")
    /\ lapsed = {}
    /\ flow = Idle

\* The staff by role
StaffId(n) == CHOOSE i \in DOMAIN Staff : Staff[i].employee_number = n
Manager == StaffId(<<"M", "1">>)
Sales1 == StaffId(<<"S", "1">>)
Sales2 == StaffId(<<"S", "2">>)
Support1 == StaffId(<<"P", "1">>)
Support2 == StaffId(<<"P", "2">>)

Dates == {1, 2}

\* The next unused client email: clients are created with distinct emails
NextClientEmail == IF Len(clients) = 0 THEN ClientEmail1 ELSE ClientEmail2

CreateClient ==
    \E u \in {Manager, Sales1, Sales2} :
        create_client(u, NameBob, NextClientEmail)

CreateContract ==
    \E u \in {Manager, Sales1, Sales2}, c \in 1..MaxClients,
       t \in {Cents(0 - 1), Cents(2)} :
        create_contract(u, c, t, None)

\* The update_contract calls of the contract specification
ContractUpdates ==
    {[total_amount |-> Some(Cents(1)), amount_due |-> None,
      is_signed |-> None]}
    \cup
    {[total_amount |-> None, amount_due |-> Some(x), is_signed |-> None] :
        x \in {Cents(0 - 1), Cents(2)}}
    \cup
    {[total_amount |-> None, amount_due |-> None, is_signed |-> Some(FALSE)],
     [total_amount |-> Some(Cents(2)), amount_due |-> Some(Cents(1)),
      is_signed |-> Some(TRUE)]}

UpdateContract ==
    \E u \in {Manager, Sales1, Sales2, Support1}, c \in 1..MaxContracts,
       a \in ContractUpdates :
        update_contract(u, c, a.total_amount, a.amount_due, a.is_signed)

SignContract ==
    \E u \in {Manager, Sales2}, c \in 1..MaxContracts :
        sign_contract(u, c)

RecordPayment ==
    \E u \in {Sales1, Support1}, c \in 1..MaxContracts,
       a \in {Cents(0), Cents(1), Cents(3)} :
        record_payment(u, c, a)

NextContract ==
    \/ CreateClient
    \/ CreateContract
    \/ UpdateContract
    \/ SignContract
    \/ RecordPayment

SpecContract == InitCrm /\ [][NextContract]_vars

\* The event specification: contracts of amount 1, signed or not
EventCreateClient ==
    \E u \in {Sales1, Sales2} : create_client(u, NameBob, NextClientEmail)

EventCreateContract ==
    \E u \in {Sales1, Sales2}, c \in 1..MaxClients :
        create_contract(u, c, Cents(1), None)

EventUpdateContract ==
    \E u \in {Manager, Sales1}, c \in 1..MaxContracts, g \in BOOLEAN :
        update_contract(u, c, None, None, Some(g))

CreateEvent ==
    \E u \in {Manager, Sales1, Sales2, Support1}, c \in 1..MaxContracts,
       s \in Dates, e \in Dates, a \in {0, 1} :
        create_event(u, c, s, e, "Lyon", a, None)

\* The update_event calls of the event specification
EventUpdates ==
    {[event_date_start |-> Some(x), event_date_end |-> None, location |-> None,
      attendees |-> None, notes |-> None] : x \in Dates}
    \cup
    {[event_date_start |-> None, event_date_end |-> Some(x), location |-> None,
      attendees |-> None, notes |-> None] : x \in Dates}
    \cup
    {[event_date_start |-> None, event_date_end |-> None,
      location |-> Some("Paris"), attendees |-> Some(x), notes |-> None] :
        x \in {0, 2}}
    \cup
    {[event_date_start |-> None, event_date_end |-> None, location |-> None,
      attendees |-> None, notes |-> Some(<<"n">>)]}

UpdateEvent ==
    \E u \in UserIds, e \in 1..MaxEvents, a \in EventUpdates :
        update_event(u, e, a.event_date_start, a.event_date_end, a.location,
                     a.attendees, a.notes)

AssignSupport ==
    \E u \in {Manager, Sales1, Support1}, e \in 1..MaxEvents,
       p \in {Sales1, Support1, Support2, Len(Staff) + 1} :
        assign_support(u, e, p)

NextEvent ==
    \/ EventCreateClient
    \/ EventCreateContract
    \/ EventUpdateContract
    \/ CreateEvent
    \/ UpdateEvent
    \/ AssignSupport

SpecEvent == InitCrm /\ [][NextEvent]_vars

\* The event update specification: the first salesperson has a client with
\* a signed contract; events are created for it, assigned and updated
SignedContract ==
    [client_id |-> 1, total_amount |-> Cents(1), amount_due |-> Cents(1),
     is_signed |-> TRUE]

InitEventUpdate ==
    /\ users = Staff
    /\ token_file = NoToken
    /\ now = 0
    /\ clients = <<[full_name |-> NameBob, email |-> ClientEmail1,
                    sales_contact_id |-> Sales1]>>
    /\ contracts = <<SignedContract>>
    /\ events = << >>
    /\ ret = Ok("init")
    /\ lapsed = {}
    /\ flow = Idle

PlanEvent ==
    \E u \in {Sales1, Sales2}, e \in Dates :
        create_event(u, 1, 1, e, "Lyon", 1, None)

ReviseEvent ==
    \E u \in UserIds, e \in 1..MaxEvents,
       a \in {x \in EventUpdates : IsNone(x.event_date_start)
                                     /\ IsNone(x.event_date_end)} :
        update_event(u, e, None, None, a.location, a.attendees, a.notes)

NextEventUpdate ==
    \/ PlanEvent
    \/ ReviseEvent
    \/ AssignSupport

SpecEventUpdate == InitEventUpdate /\ [][NextEventUpdate]_vars

\* The payment specification: payments, of whole cents and of less, are
\* recorded by the staff on a contract of three cents, of either
\* salesperson's client or of no client, with any amount still due, which
\* is signed meanwhile.
PaymentCallers == {Manager, Sales1, Sales2, Support1}
PaymentAmounts ==
    {Cents(0 - 1), Cents(0), 1, Cents(1), Cents(1) + 1, Cents(2), Cents(4)}

InitPayment ==
    /\ users = Staff
    /\ token_file = NoToken
    /\ now = 0
    /\ clients = <<[full_name |-> NameBob, email |-> ClientEmail1,
                    sales_contact_id |-> Sales1],
                   [full_name |-> NameBob, email |-> ClientEmail2,
                    sales_contact_id |-> Sales2]>>
    /\ contracts \in {<<[client_id |-> c, total_amount |-> Cents(3),
                          amount_due |-> Cents(d), is_signed |-> g]>> :
                        c \in 0..2, d \in 0..3, g \in BOOLEAN}
    /\ events = << >>
    /\ ret = Ok("init")
    /\ lapsed = {}
    /\ flow = Idle

Pay ==
    \E u \in PaymentCallers, c \in 1..MaxContracts, a \in PaymentAmounts :
        record_payment(u, c, a)

NextPayment ==
    \/ Pay
    \/ SignContract

SpecPayment == InitPayment /\ [][NextPayment]_vars

\* The support specification: events of the signed contract are assigned a
\* support contact, by assign_support and by update_event as main.py calls
\* it, while the management changes roles and deactivates users.
SupportCallers == {Manager, Sales1, Support1}
SupportTargets == {Sales1, Support1, Support2, Len(Staff) + 1}

UpdateEventSupport ==
    \E u \in SupportCallers, e \in 1..MaxEvents, p \in SupportTargets :
        update_event_support_contact_id(u, e, p)

ChangeRole ==
    \E id \in {Support1, Support2}, r \in {SALES, SUPPORT} :
        update_user(Manager, id, None, None, None, Some(r), None)

DeactivateSupport == deactivate_user(Support2)

NextSupport ==
    \/ PlanEvent
    \/ AssignSupport
    \/ UpdateEventSupport
    \/ ChangeRole
    \/ DeactivateSupport

SpecSupport == InitEventUpdate /\ [][NextSupport]_vars

-----------------------------------------------------------------------------
(* The administration specification: users are registered, created and    *)
(* updated.  Every update_user call changes one field, so that no call     *)
(* fails after it has assigned a field, and every query finds in the       *)
(* database what the session shows.                                        *)

Blank == <<" ">>

Form(n, f, e, p) ==
    [employee_number |-> n, full_name |-> f, email |-> e, password |-> p]

\* What register_user and create_user are called with: two well-formed
\* users, the second one's email in capitals, the conflicts with them, and
\* one form for each validation of create_user
GoodForms == {Form(Emp1, NameAlice, EmailB, Pw1),
              Form(Emp2, NameAlice, EmailAUpper, Pw1)}

ConflictForms == {Form(Emp1, NameAlice, EmailAUpper, Pw1),
                  Form(Emp3, NameAlice, EmailA, Pw1)}

BadForms == {Form(Blank, NameAlice, EmailA, Pw1),
             Form(Emp3, << >>, EmailA, Pw1),
             Form(Emp3, NameAlice, EmailNoAt, Pw1),
             Form(Emp3, NameAlice, EmailA, PwShort)}

\* A form that fails every validation of create_user
LaxForm == Form(Blank, << >>, EmailNoAt, PwShort)

Forms == GoodForms \cup ConflictForms \cup BadForms \cup {LaxForm}

\* The update_user calls of the administration specification
AdminUpdates ==
    {[employee_number |-> None, full_name |-> None, email |-> Some(e),
      role |-> None, is_active |-> None] : e \in {EmailAUpper, EmailNoAt}}
    \cup
    {[employee_number |-> Some(Emp1), full_name |-> None, email |-> None,
      role |-> None, is_active |-> None],
     [employee_number |-> None, full_name |-> Some(Blank), email |-> None,
      role |-> None, is_active |-> None]}

InitAdmin ==
    /\ users = << >>
    /\ token_file = NoToken
    /\ now = 0
    /\ clients = << >>
    /\ contracts = << >>
    /\ events = << >>
    /\ ret = Ok("init")
    /\ lapsed = {}
    /\ flow = Idle

AdminRegister ==
    \/ \E f \in GoodForms, r \in RoleEnum :
          register_user(f.employee_number, f.full_name, f.email, f.password, r)
    \/ \E f \in ConflictForms \cup {LaxForm} :
          register_user(f.employee_number, f.full_name, f.email, f.password,
                        SALES)

AdminCreateUser ==
    \E cu \in UserIds, f \in Forms :
        create_user(cu, f.employee_number, f.full_name, f.email, f.password,
                    SUPPORT)

AdminUpdateUser ==
    \E cu \in UserIds, id \in 1..MaxUsers, a \in AdminUpdates :
        update_user(cu, id, a.employee_number, a.full_name, a.email, a.role,
                    a.is_active)

NextAdmin ==
    \/ AdminRegister
    \/ AdminCreateUser
    \/ AdminUpdateUser

SpecAdmin == InitAdmin /\ [][NextAdmin]_vars

-----------------------------------------------------------------------------
(* The stored-hash specification: logins and password changes against a    *)
(* users table whose password_hash column holds, besides the hashes that   *)
(* register_user wrote, strings that are no bcrypt hash (a password left   *)
(* in clear by the earlier schema of models.User, an emptied column).      *)

PlainHash == [alg |-> "plain", of |-> Pw1]
EmptyHash == [alg |-> "", of |-> << >>]
MalformedHashes == {PlainHash, EmptyHash}
StoredHashes == {hash_password(Pw1)} \cup MalformedHashes

StoredUser(n, e, h) ==
    [employee_number |-> n, full_name |-> NameAlice, email |-> e,
     password_hash |-> h, role |-> SALES, is_active |-> TRUE]

InitStored ==
    /\ users \in {<<StoredUser(Emp1, EmailA, h1), StoredUser(Emp2, EmailB, h2)>> :
                     h1 \in StoredHashes, h2 \in StoredHashes}
    /\ token_file = NoToken
    /\ now = 0
    /\ clients = << >>
    /\ contracts = << >>
    /\ events = << >>
    /\ ret = Ok("init")
    /\ lapsed = {}
    /\ flow = Idle

NextStored ==
    \/ Authenticate
    \/ ChangePassword
    \/ Deactivate

SpecStored == InitStored /\ [][NextStored]_vars

\* The password specification: the same calls against a users table whose
\* hashes are all of hash_password's making.
InitPassword ==
    /\ users \in {<<StoredUser(Emp1, EmailA, hash_password(p1)),
                     StoredUser(Emp2, EmailB, hash_password(p2))>> :
                     p1 \in LoginPasswords, p2 \in LoginPasswords}
    /\ token_file = NoToken
    /\ now = 0
    /\ clients = << >>
    /\ contracts = << >>
    /\ events = << >>
    /\ ret = Ok("init")
    /\ lapsed = {}
    /\ flow = Idle

SpecPassword == InitPassword /\ [][NextStored]_vars

-----------------------------------------------------------------------------
(* The token specification: one user logs in at instants that need not be  *)
(* whole seconds, and the token is decoded while the clock runs through    *)
(* the first seconds and through the seconds around 24 hours later.        *)

EarlyInstants == 0..(Instant(2) - 1)
LateInstants ==
    (Hours(JWT_EXPIRATION_HOURS) - Instant(1))..
        (Hours(JWT_EXPIRATION_HOURS) + Instant(2))
TokenInstants == EarlyInstants \cup LateInstants

InitToken ==
    /\ users = <<StoredUser(Emp1, EmailA, hash_password(Pw1))>>
    /\ token_file = NoToken
    /\ now \in EarlyInstants
    /\ clients = << >>
    /\ contracts = << >>
    /\ events = << >>
    /\ ret = Ok("init")
    /\ lapsed = {}
    /\ flow = Idle

TokenLogin == authenticate_user(EmailA, Pw1)

\* decode_access_token called on the content of the file
DecodeToken ==
    /\ ~IsNone(load_token(token_file))
    /\ ret' = Ret("decode_access_token", "",
                  IF IsNone(decode_access_token(token_file, now))
                  THEN "None" ELSE "payload",
                  0, token_file)
    /\ UNCHANGED <<users, token_file, now, lapsed>>
    /\ UnchangedCrm

\* is_token_expired called on the content of the file
IsTokenExpired ==
    /\ ~IsNone(load_token(token_file))
    /\ ret' = Ret("is_token_expired", "",
                  IF is_token_expired(token_file, now) THEN "True" ELSE "False",
                  0, token_file)
    /\ UNCHANGED <<users, token_file, now, lapsed>>
    /\ UnchangedCrm

\* The clock moves by one tick.
TickFraction ==
    /\ now + 1 \in TokenInstants
    /\ now' = now + 1
    /\ ret' = Ok("tick")
    /\ UNCHANGED <<users, token_file, lapsed>>
    /\ UnchangedCrm

\* The clock moves to one second short of JWT_EXPIRATION_HOURS later.
TickDay ==
    /\ now \in EarlyInstants
    /\ now' = now + Hours(JWT_EXPIRATION_HOURS) - Instant(1)
    /\ ret' = Ok("tick")
    /\ UNCHANGED <<users, token_file, lapsed>>
    /\ UnchangedCrm

NextToken ==
    \/ TokenLogin
    \/ DecodeToken
    \/ IsTokenExpired
    \/ GetValidToken
    \/ TickFraction
    \/ TickDay

SpecToken == InitToken /\ [][NextToken]_vars

-----------------------------------------------------------------------------
(* The two-process specification: two runs of the program share TOKEN_FILE *)
(* and the database.  One logs users in and deactivates them, each call in *)
(* one step; the other calls get_authenticated_user, whose accesses to the *)
(* file are separate steps: the load_token of get_valid_token, then the    *)
(* decoding and the clear_token of get_valid_token, then get_current_user  *)
(* and the clear_token of get_authenticated_user.  No lock protects the    *)
(* file.                                                                   *)

\* get_valid_token: token = load_token()
FlowLoad ==
    /\ flow.pc = "idle"
    /\ flow' = [pc |-> "loaded", token |-> token_file]
    /\ ret' = Ret("load_token", "", "", 0, token_file)
    /\ UNCHANGED <<users, token_file, now, clients, contracts, events, lapsed>>

\* get_valid_token after load_token, on the token it loaded
FlowValidate ==
    /\ flow.pc = "loaded"
    /\ IF IsNone(load_token(flow.token))
       THEN /\ ret' = Raise("get_authenticated_user", "AuthenticationError",
                            MsgPleaseLogin)
            /\ flow' = Idle
            /\ UNCHANGED token_file
       ELSE IF JwtDecode(flow.token, now) = "ok"
       THEN /\ ret' = Ret("get_valid_token", "", "", 0, flow.token)
            /\ flow' = [pc |-> "validated", token |-> flow.token]
            /\ UNCHANGED token_file
       ELSE /\ ret' = Raise("get_authenticated_user", "AuthenticationError",
                            IF JwtDecode(flow.token, now) = "expired"
                            THEN MsgExpired ELSE MsgInvalid)
            /\ flow' = Idle
            /\ token_file' = clear_token(token_file)
    /\ UNCHANGED <<users, now, clients, contracts, events, lapsed>>

\* get_authenticated_user after get_valid_token, on the token it returned
FlowResolve ==
    /\ flow.pc = "validated"
    /\ IF get_current_user(flow.token) = 0
       THEN /\ ret' = Raise("get_authenticated_user", "AuthenticationError",
                            MsgUserGone)
            /\ token_file' = clear_token(token_file)
       ELSE /\ ret' = OkRow("get_authenticated_user",
                            get_current_user(flow.token))
            /\ UNCHANGED token_file
    /\ flow' = Idle
    /\ UNCHANGED <<users, now, clients, contracts, events, lapsed>>

InitRace ==
    /\ users = <<StoredUser(Emp1, EmailA, hash_password(Pw1)),
                 StoredUser(Emp2, EmailB, hash_password(Pw1))>>
    /\ token_file \in InitialTokenFiles
    /\ now = 0
    /\ clients = << >>
    /\ contracts = << >>
    /\ events = << >>
    /\ ret = Ok("init")
    /\ lapsed = {}
    /\ flow = Idle

RaceLogin == \E e \in LoginEmails : authenticate_user(e, Pw1)

NextRace ==
    \/ FlowLoad
    \/ FlowValidate
    \/ FlowResolve
    \/ RaceLogin
    \/ Deactivate
    \/ Tick

SpecRace == InitRace /\ [][NextRace]_vars

-----------------------------------------------------------------------------
(* Claims *)

\* The file holds a well-signed, unexpired token
SlotValid == token_file.signed /\ now < Instant(token_file.exp)

\* The file holds a well-signed, unexpired token of an existing active user
SlotLive ==
    /\ SlotValid
    /\ token_file.sub \in UserIds
    /\ users[token_file.sub].is_active

\* C1: authenticate_user fails with the same exception type and the same
\* message whether the email is unknown, the account is inactive or the
\* password is wrong: whenever a login has just failed, every other login
\* that fails in the same state fails with exactly the same error.
\* (The code violates this: an inactive account gets a message of its own.)
C1_SameLoginError ==
    (ret.op = "authenticate_user" /\ ret.exc # "") =>
        \A e \in LoginEmails, p \in LoginPasswords :
            LET r == AuthenticateResult(e, p) IN
            r.exc # "" => (r.exc = ret.exc /\ r.msg = ret.msg)

\* C2: in every state, every update_contract call on an existing contract
\* is permitted for a Sales user exactly when the contract's client has that
\* user as its sales contact, always for a Management user, never for a
\* Support user, and a denied call returns the contracts as they were; and
\* every step of update_contract that raises leaves the contracts table as
\* it was.
C2_UpdateContractGate ==
    /\ [](\A u \in UserIds, c \in ContractIds, a \in ContractUpdates :
            LET r == UpdateContractResult(u, c, a.total_amount, a.amount_due,
                                          a.is_signed)
                client == ContractClient(contracts[c])
                owns == ~IsNone(client) /\ Val(client).sales_contact_id = u
                permitted == r.ret.exc = ""
            IN /\ (users[u].role = SALES) => (permitted <=> owns)
               /\ (users[u].role = MANAGEMENT) => permitted
               /\ (users[u].role = SUPPORT) => ~permitted
               /\ ~permitted => r.contracts = contracts)
    /\ [][(ret'.op = "update_contract" /\ ret'.exc # "")
            => contracts' = contracts]_vars

\* C2 witness: update_contract has just been denied on a contract whose
\* client belongs to the second salesperson.
C2_Witness ==
    /\ ret = Raise("update_contract", "ContractError", "permission")
    /\ \E c \in ContractIds :
          /\ ~IsNone(ContractClient(contracts[c]))
          /\ Val(ContractClient(contracts[c])).sales_contact_id = Sales2

\* C3: in every state, every update_event call on an existing event passes
\* the permission check exactly when the user holds event.update, or holds
\* event.update_own and is the event's support contact; that decision is
\* can_modify_event's; a Sales user, and a Support user who is not the
\* event's support contact (the event may have none), is denied; and every
\* step of update_event that is denied leaves the events table as it was.
C3_UpdateEventGate ==
    /\ [](\A u \in UserIds, e \in EventIds, a \in EventUpdates :
            LET r == UpdateEventResult(u, e, a.event_date_start,
                                       a.event_date_end, a.location,
                                       a.attendees, a.notes)
                permitted == r.ret.msg # "permission"
                plain == has_permission(users[u], "event.update")
                own == has_permission(users[u], "event.update_own")
            IN /\ permitted <=>
                    (plain \/ (own /\ events[e].support_contact_id = u))
               /\ permitted <=> can_modify_event(u, events[e])
               /\ plain <=> (users[u].role = MANAGEMENT)
               /\ own <=> (users[u].role = SUPPORT)
               /\ (users[u].role = SALES) => ~permitted
               /\ (/\ users[u].role = SUPPORT
                   /\ events[e].support_contact_id # u) => ~permitted
               /\ ~permitted => r.events = events)
    /\ [][(ret'.op = "update_event" /\ ret'.msg = "permission")
            => events' = events]_vars

\* C3 witness: update_event has just been denied on an event assigned to
\* the first support agent (so to a Sales user or to the other agent).
C3_Witness ==
    /\ ret = Raise("update_event", "EventError", "permission")
    /\ \E e \in EventIds : events[e].support_contact_id = Support1

\* C4: get_valid_token on an empty file returns not_found, on a well-signed
\* unexpired token returns that token, both leaving the file as it was; on
\* an expired or invalid token it returns the error with the file emptied,
\* so that load_token then returns None.
C4_GetValidTokenClears ==
    [][ret'.op = "get_valid_token" =>
        LET stored == load_token(token_file) IN
        IF IsNone(stored)
        THEN ret'.msg = "not_found" /\ token_file' = token_file
        ELSE IF Val(stored).signed /\ now < Instant(Val(stored).exp)
        THEN /\ ret'.msg = ""
             /\ ret'.token = Val(stored)
             /\ token_file' = token_file
        ELSE /\ ret'.msg = IF Val(stored).signed THEN "expired" ELSE "invalid"
             /\ ret'.token = NoToken
             /\ IsNone(load_token(token_file'))
      ]_vars

\* C4 witness: get_valid_token has just reported an expired token and the
\* file is empty.
C4_Witness ==
    /\ ret.op = "get_valid_token"
    /\ ret.msg = "expired"
    /\ IsNone(load_token(token_file))

\* C5: get_authenticated_user, on a well-signed unexpired token whose
\* subject is no user or an inactive user, raises AuthenticationError and
\* empties the file; the user it returns is always an active one.
C5_MissingOrInactiveSubject ==
    [][ret'.op = "get_authenticated_user" =>
        /\ (/\ SlotValid
            /\ \/ token_file.sub \notin UserIds
               \/ ~users[token_file.sub].is_active)
            => /\ ret'.exc = "AuthenticationError"
               /\ IsNone(load_token(token_file'))
        /\ (ret'.exc = "") =>
               /\ ret'.id \in UserIds
               /\ users[ret'.id].is_active
      ]_vars

\* C5 witness: get_authenticated_user has just failed with "user not found"
\* at a time when the only well-signed unexpired token the file can have
\* held is one issued by a login, and the file is empty.
C5_Witness ==
    /\ ret = Raise("get_authenticated_user", "AuthenticationError", MsgUserGone)
    /\ now >= Hours(JWT_EXPIRATION_HOURS)
    /\ \E u \in UserIds : ~users[u].is_active
    /\ token_file = NoToken

\* C6 as stated: deactivate_user leaves the token file alone and the token
\* of the deactivated user is still reported unexpired, yet every later
\* get_authenticated_user made with that token in the file fails.
\* (Fails once update_user has set is_active back to true.)
C6_StaleTokenAlwaysRejected ==
    [][/\ (ret'.op = "deactivate_user") =>
              /\ token_file' = token_file
              /\ SlotValid => ~is_token_expired(token_file', now')
       /\ (/\ ret'.op = "get_authenticated_user"
           /\ token_file.signed
           /\ token_file.sub \in lapsed) => ret'.exc = "AuthenticationError"
      ]_vars

\* C6 as amended: deactivate_user leaves the token file alone and the token
\* of the deactivated user is still reported unexpired, yet every
\* get_authenticated_user made with that token in the file while the user is
\* still inactive fails.
C6_StaleTokenRejectedWhileInactive ==
    [][/\ (ret'.op = "deactivate_user") =>
              /\ token_file' = token_file
              /\ SlotValid => ~is_token_expired(token_file', now')
       /\ (/\ ret'.op = "get_authenticated_user"
           /\ token_file.signed
           /\ token_file.sub \in lapsed
           /\ ~users[token_file.sub].is_active)
              => ret'.exc = "AuthenticationError"
      ]_vars

\* C6 witness: a user has just been deactivated while the file holds the
\* token of their login, which is still reported unexpired.
C6_Witness ==
    /\ ret.op = "deactivate_user"
    /\ token_file.signed
    /\ token_file.sub \in lapsed
    /\ ~users[token_file.sub].is_active
    /\ ~is_token_expired(token_file, now)

\* C7 as stated: once a user's is_active has been false, neither
\* authenticate_user nor get_authenticated_user ever succeeds for that user.
\* (Fails: update_user sets is_active back to true.)
C7_DeactivationTerminal ==
    [][(/\ ret'.op \in {"authenticate_user", "get_authenticated_user"}
        /\ ret'.exc = "") => ret'.id \notin lapsed
      ]_vars

\* C7 as amended: while a user's is_active is false, neither
\* authenticate_user nor get_authenticated_user succeeds for that user, and
\* the only call that sets is_active back to true is a successful
\* update_user, which takes a Management user.
C7_InactiveCannotLogin ==
    [][/\ (/\ ret'.op \in {"authenticate_user", "get_authenticated_user"}
           /\ ret'.exc = "") => users[ret'.id].is_active
       /\ \A u \in UserIds :
              (~users[u].is_active /\ users'[u].is_active) =>
                  /\ ret' = OkRow("update_user", u)
                  /\ \E m \in UserIds : users[m].role = MANAGEMENT
      ]_vars

\* C7 witness: a login for a deactivated account has just been refused.
C7_Witness ==
    /\ ret = Raise("authenticate_user", "AuthenticationError", MsgDeactivated)
    /\ \E u \in lapsed : ~users[u].is_active

\* C8: a successful authenticate_user leaves the file holding exactly the
\* token it returned, issued to the active user it returned; from then on
\* get_authenticated_user returns that user and the file keeps the token
\* across every step other than a successful login, a clear_token, the
\* token's expiry or the user's deactivation; and a login with a password
\* that is not the user's raises AuthenticationError.
C8_SessionPersists ==
    [][/\ (ret'.op = "authenticate_user" /\ ret'.exc = "") =>
              /\ token_file' = ret'.token
              /\ ret'.token.signed
              /\ ret'.token.sub = ret'.id
              /\ ret'.id \in UserIds
              /\ users[ret'.id].is_active
              /\ SlotLive'
       /\ (SlotLive /\ ret'.op = "get_authenticated_user") =>
              /\ ret' = OkRow("get_authenticated_user", token_file.sub)
              /\ token_file' = token_file
       /\ (/\ SlotLive
           /\ ~(ret'.op = "authenticate_user" /\ ret'.exc = "")
           /\ ret'.op # "clear_token"
           /\ now' < Instant(token_file.exp)
           /\ users'[token_file.sub].is_active) => token_file' = token_file
       /\ (ret'.op = "authenticate_user") =>
          \A e \in LoginEmails, p \in LoginPasswords :
              (/\ authenticate_user(e, p)
               /\ UserByEmail(Lower(e)) # 0
               /\ users[UserByEmail(Lower(e))].password_hash
                     # hash_password(p))
                  => /\ ret'.exc = "AuthenticationError"
                     /\ token_file' = token_file
      ]_vars

\* C8 witness: get_authenticated_user has just returned the user whose
\* token, issued at an earlier hour, is in the file.
C8_Witness ==
    /\ SlotLive
    /\ ret = OkRow("get_authenticated_user", token_file.sub)
    /\ Instant(token_file.iat) < now

\* C9: the file holds one token: a successful login leaves the file holding
\* the new token and nothing else, so when it held the token of another
\* user before, that token is gone and get_authenticated_user returns the
\* user who logged in last.
C9_SecondLoginOverwrites ==
    [][(ret'.op = "authenticate_user" /\ ret'.exc = "") =>
          /\ load_token(token_file') = Some(ret'.token)
          /\ (token_file.signed /\ token_file.sub # ret'.id) =>
                /\ token_file' # token_file
                /\ token_file'.sub = ret'.id
                /\ GetAuthenticatedResult'.ret =
                      OkRow("get_authenticated_user", ret'.id)
      ]_vars

\* C9 witness: the second registered user has just logged in, at a later
\* hour, while the first one is active too, and the file holds the second
\* user's token.
C9_Witness ==
    /\ ret.op = "authenticate_user"
    /\ ret.exc = ""
    /\ ret.id = 2
    /\ users[1].is_active
    /\ token_file.sub = 2
    /\ token_file.iat > 0
    /\ load_token(token_file) = Some(ret.token)

\* C10: in every state, has_permission(user, capability) is membership of
\* the capability in the specification's table for the user's role, for
\* every user and every capability, those that no role holds included.
C10_PermissionTable ==
    LET Capabilities ==
            {"user.create", "user.read", "user.update", "user.delete",
             "client.create", "client.read", "client.update",
             "client.update_own", "client.delete",
             "contract.create", "contract.read", "contract.update",
             "contract.update_own", "contract.delete",
             "event.create", "event.read", "event.update",
             "event.update_own", "event.delete", ""}
        Table(role) ==
            CASE role = MANAGEMENT ->
                    {"user.create", "user.read", "user.update", "user.delete",
                     "client.read", "contract.read", "contract.update",
                     "event.read", "event.update"}
              [] role = SALES ->
                    {"client.create", "client.read", "client.update_own",
                     "contract.create", "contract.read",
                     "contract.update_own", "event.create", "event.read"}
              [] role = SUPPORT ->
                    {"client.read", "contract.read", "event.read",
                     "event.update_own"}
    IN \A u \in UserIds, cap \in Capabilities :
           has_permission(users[u], cap) <=> (cap \in Table(users[u].role))

\* C10 witness: users of all three roles exist and a call has just been
\* refused by has_permission.
C10_Witness ==
    /\ {users[u].role : u \in UserIds} = RoleEnum
    /\ ret = Raise("create_client", "ClientError", "permission")

\* C11: after any sequence of register_user, create_user and update_user
\* calls, no two users have the same employee number, no two users have the
\* same email compared without regard to case, and every stored email is in
\* lower case.
\* (The code violates this: update_user stores the email as given and
\* compares it as given.)
C11_UniqueNormalised ==
    /\ \A i \in UserIds, j \in UserIds :
          i # j => /\ users[i].employee_number # users[j].employee_number
                   /\ Lower(users[i].email) # Lower(users[j].email)
    /\ \A i \in UserIds : users[i].email = Lower(users[i].email)

\* C12: a register_user call succeeds only when no existing user has the
\* given employee number or the given email compared without regard to
\* case, and a failed call leaves the users table as it was.
\* (The code violates this once update_user has stored an email with a
\* capital letter.)
C12_RegisterConflict ==
    [][ret'.op = "register_user" =>
        IF ret'.exc = ""
        THEN LET new == users'[Len(users')] IN
             \A u \in UserIds :
                 /\ users[u].employee_number # new.employee_number
                 /\ Lower(users[u].email) # Lower(new.email)
        ELSE users' = users
      ]_vars

\* C13: in every state, every create_user and every update_user call made
\* by a user who is not Management raises the role error, whether or not
\* the target exists and whatever the fields, and returns the users table
\* as it was; and every step of create_user or update_user that succeeds is
\* taken while a Management user exists, every step that raises the role
\* error leaves the users table as it was.
C13_ManagementOnly ==
    /\ [](\A cu \in UserIds :
            users[cu].role # MANAGEMENT =>
              /\ \A f \in Forms, r \in RoleEnum :
                    LET c == CreateUserResult(cu, f.employee_number,
                                 f.full_name, f.email, f.password, r)
                    IN /\ c.ret = Raise("create_user", "ValueError",
                             "Seul le management peut creer des collaborateurs")
                       /\ c.users = users
              /\ \A id \in 1..(MaxUsers + 1), a \in AdminUpdates :
                    LET c == UpdateUserResult(cu, id, a.employee_number,
                                 a.full_name, a.email, a.role, a.is_active)
                    IN /\ c.ret = Raise("update_user", "ValueError",
                             "Seul le management peut modifier des collaborateurs")
                       /\ c.users = users)
    /\ [][(ret'.op \in {"create_user", "update_user"}) =>
            /\ (ret'.exc = "") => \E m \in UserIds : users[m].role = MANAGEMENT
            /\ (ret'.msg \in
                  {"Seul le management peut creer des collaborateurs",
                   "Seul le management peut modifier des collaborateurs"})
                  => users' = users
         ]_vars

\* C13 witness: update_user has just been refused for the role of its
\* caller, in a table that holds no Management user and has room left.
C13_Witness ==
    /\ ret = Raise("update_user", "ValueError",
                   "Seul le management peut modifier des collaborateurs")
    /\ Len(users) < MaxUsers
    /\ \A u \in UserIds : users[u].role # MANAGEMENT

\* C14: in every state, create_user called by a Management user raises
\* ValueError for a blank employee number, a blank full name, an email
\* without "@" and a password shorter than 8 characters, returning the users
\* table as it was; register_user accepts each of these forms unless it
\* conflicts with an existing user; and every step of create_user that
\* raises leaves the users table as it was.
C14_CreateUserValidates ==
    /\ [](\A cu \in UserIds, r \in RoleEnum :
            users[cu].role = MANAGEMENT =>
              LET Created(f) == CreateUserResult(cu, f.employee_number,
                                    f.full_name, f.email, f.password, r)
                  Rejected(f, msg) ==
                      /\ Created(f).ret = Raise("create_user", "ValueError", msg)
                      /\ Created(f).users = users
              IN /\ Rejected(Form(Blank, NameBob, EmailA, Pw1),
                             "Le numero d'employe est obligatoire")
                 /\ Rejected(Form(<< >>, NameBob, EmailA, Pw1),
                             "Le numero d'employe est obligatoire")
                 /\ Rejected(Form(Emp3, Blank, EmailA, Pw1),
                             "Le nom complet est obligatoire")
                 /\ Rejected(Form(Emp3, << >>, EmailA, Pw1),
                             "Le nom complet est obligatoire")
                 /\ Rejected(Form(Emp3, NameBob, EmailNoAt, Pw1),
                             "L'email est invalide")
                 /\ Rejected(Form(Emp3, NameBob, EmailA, PwShort),
                     "Le mot de passe doit contenir au moins 8 caracteres")
                 /\ \A f \in BadForms \cup {LaxForm} :
                       /\ Created(f).ret.exc = "ValueError"
                       /\ Created(f).users = users)
    /\ [](\A f \in BadForms \cup {LaxForm}, r \in RoleEnum :
            LET g == RegisterResult(f.employee_number, f.full_name, f.email,
                                    f.password, r)
            IN (/\ UserByEmployeeNumber(f.employee_number) = 0
                /\ UserByEmail(Lower(f.email)) = 0)
               => /\ g.ret.exc = ""
                  /\ Len(g.users) = Len(users) + 1)
    /\ [][(ret'.op = "create_user" /\ ret'.exc # "") => users' = users]_vars

\* C14 witness: create_user has just refused a password shorter than 8
\* characters, in a table where register_user has stored a user with a
\* blank employee number, an empty name and an email without "@".
C14_Witness ==
    /\ ret = Raise("create_user", "ValueError",
                   "Le mot de passe doit contenir au moins 8 caracteres")
    /\ \E u \in UserIds : /\ IsBlank(users[u].employee_number)
                          /\ IsBlank(users[u].full_name)
                          /\ ~HasAt(users[u].email)

\* C15: every step of update_event or update_user that raises leaves the
\* events table and the users table, as the session shows them and as its
\* next commit writes them, as they were before the call.
\* (The code violates this: update_event assigns the dates and the location
\* before it checks the attendees and the dates, update_user assigns each
\* field before it checks the next one, and neither rolls back.)
C15_ValidationBeforeMutation ==
    [][(ret'.op \in {"update_event", "update_user"} /\ ret'.exc # "") =>
          /\ events' = events
          /\ users' = users
      ]_vars

\* C16: can_modify_contract never raises; for a contract without a client it
\* returns false to Sales, true to Management and false to Support; and for
\* every user and contract it decides as the gate of update_contract does.
\* (The code violates this: for a Sales user and a contract without a client
\* it raises AttributeError.)
C16_CanModifyContractTotal ==
    \A u \in UserIds, c \in ContractIds :
        LET r == can_modify_contract(u, contracts[c])
        IN /\ r.exc = ""
           /\ r.value = CanUpdateContract(u, contracts[c])
           /\ IsNone(ContractClient(contracts[c])) =>
                  r.value = (users[u].role = MANAGEMENT)

\* C17: verify_password never raises, and returns false for a stored hash
\* that is no bcrypt hash; so every authenticate_user that fails, fails with
\* AuthenticationError.
\* (The code violates this: bcrypt.checkpw raises ValueError for such a hash,
\* verify_password does not catch it and authenticate_user lets it through.)
C17_VerifyPasswordTotal ==
    /\ [](\A u \in UserIds, p \in LoginPasswords :
            LET v == verify_password(p, users[u].password_hash)
            IN /\ v.exc = ""
               /\ users[u].password_hash \in MalformedHashes => ~v.value)
    /\ [][(ret'.op = "authenticate_user" /\ ret'.exc # "") =>
              ret'.exc = "AuthenticationError"]_vars

\* C18 as stated: a token issued by a login at instant t0 has exp - iat of
\* exactly 24 hours; decode_access_token and get_valid_token accept it at
\* every instant from t0 to before t0 + 24 hours; and at every instant at or
\* after its exp it is reported expired.
\* (Violated: iat and exp are whole seconds, so a token issued in the course
\* of a second expires 24 hours after the start of that second.)
C18_TokenLifetime ==
    /\ [](token_file.signed =>
            (Instant(token_file.exp) <= now =>
                /\ is_token_expired(token_file, now)
                /\ IsNone(decode_access_token(token_file, now))
                /\ get_valid_token(token_file, now).error = "expired"))
    /\ [][(ret'.op = "authenticate_user" /\ ret'.exc = "") =>
            /\ Instant(ret'.token.exp - ret'.token.iat)
                   = Hours(JWT_EXPIRATION_HOURS)
            /\ \A t \in TokenInstants :
                  (now <= t /\ t < now + Hours(JWT_EXPIRATION_HOURS)) =>
                      /\ decode_access_token(ret'.token, t) = Some(ret'.token)
                      /\ get_valid_token(ret'.token, t).token
                             = Some(ret'.token)
          ]_vars

\* C18, amended: a token issued by a login at instant t0 has iat equal to t0
\* cut to the whole second and exp - iat of exactly 24 hours;
\* decode_access_token and get_valid_token accept it at every instant from
\* t0 to before its exp, that is before 24 hours after the start of the
\* second of t0; and at every instant at or after its exp it is reported
\* expired, by them and by is_token_expired.
C18_TokenLifetimeTruncated ==
    /\ [](token_file.signed =>
            /\ Instant(token_file.exp) <= now =>
                /\ is_token_expired(token_file, now)
                /\ IsNone(decode_access_token(token_file, now))
                /\ get_valid_token(token_file, now).error = "expired"
            /\ now < Instant(token_file.exp) =>
                /\ ~is_token_expired(token_file, now)
                /\ decode_access_token(token_file, now) = Some(token_file)
                /\ get_valid_token(token_file, now).token = Some(token_file))
    /\ [][(ret'.op = "authenticate_user" /\ ret'.exc = "") =>
            /\ ret'.token.iat = NumericDate(now)
            /\ Instant(ret'.token.iat) <= now
            /\ now < Instant(ret'.token.iat + 1)
            /\ Instant(ret'.token.exp - ret'.token.iat)
                   = Hours(JWT_EXPIRATION_HOURS)
            /\ \A t \in TokenInstants :
                  (now <= t /\ t < Instant(ret'.token.exp)) =>
                      /\ decode_access_token(ret'.token, t) = Some(ret'.token)
                      /\ get_valid_token(ret'.token, t).token
                             = Some(ret'.token)
          ]_vars

\* C18 witness: decode_access_token has just refused the token of the file
\* at the very instant of its exp.
C18_Witness ==
    /\ ret.op = "decode_access_token"
    /\ ret.msg = "None"
    /\ ret.token = token_file
    /\ token_file.signed
    /\ now = Instant(token_file.exp)

\* C19 as stated: change_password with a wrong old password raises
\* AuthenticationError and leaves the users table as it was; with the right
\* one it replaces the hash, and authenticate_user then succeeds with the new
\* password and fails with the old one when the two differ.
\* (Violated: change_password does not look at is_active, and the login of
\* a deactivated user fails whatever the password.)
C19_ChangePassword ==
    [][ret'.op = "change_password" =>
        \A u \in UserIds, o \in LoginPasswords :
            change_password(u, o, Pw2) =>
                IF users[u].password_hash # hash_password(o)
                THEN /\ ret'.exc = "AuthenticationError"
                     /\ users' = users
                ELSE /\ ret'.exc = ""
                     /\ users' = [users EXCEPT
                            ![u].password_hash = hash_password(Pw2)]
                     /\ AuthenticateResult(users[u].email, Pw2)'.exc = ""
                     /\ AuthenticateResult(users[u].email, Pw2)'.id = u
                     /\ o # Pw2 =>
                          AuthenticateResult(users[u].email, o)'.exc
                              = "AuthenticationError"
      ]_vars

\* C19, amended: change_password with a wrong old password raises
\* AuthenticationError and leaves the users table as it was; with the right
\* one it replaces the hash and nothing else, and then, if the user is
\* active, authenticate_user succeeds with the new password, and whether
\* active or not it fails with the old one when the two differ.
C19_ChangePasswordActive ==
    [][ret'.op = "change_password" =>
        \A u \in UserIds, o \in LoginPasswords :
            change_password(u, o, Pw2) =>
                IF users[u].password_hash # hash_password(o)
                THEN /\ ret'.exc = "AuthenticationError"
                     /\ users' = users
                ELSE /\ ret'.exc = ""
                     /\ users' = [users EXCEPT
                            ![u].password_hash = hash_password(Pw2)]
                     /\ users[u].is_active =>
                          /\ AuthenticateResult(users[u].email, Pw2)'.exc = ""
                          /\ AuthenticateResult(users[u].email, Pw2)'.id = u
                     /\ ~users[u].is_active =>
                          AuthenticateResult(users[u].email, Pw2)'.exc
                              = "AuthenticationError"
                     /\ o # Pw2 =>
                          AuthenticateResult(users[u].email, o)'.exc
                              = "AuthenticationError"
      ]_vars

\* C19 witness: change_password has just succeeded for an active user, who
\* can log in with the new password and not with the other one.
C19_Witness ==
    /\ ret = Ok("change_password")
    /\ \E u \in UserIds :
          /\ users[u].is_active
          /\ users[u].password_hash = hash_password(Pw2)
          /\ AuthenticateResult(users[u].email, Pw2).id = u
          /\ AuthenticateResult(users[u].email, Pw1).exc = "AuthenticationError"

\* C20: every create_contract step with a negative total_amount raises
\* ContractError and leaves the contracts table as it was.
\* (The code violates this: create_contract does not look at the amount.)
C20_NegativeAmountRejected ==
    [][\A u \in UserIds, c \in 1..MaxClients, t \in {Cents(0 - 1)} :
          create_contract(u, c, t, None) =>
              /\ ret'.exc = "ContractError"
              /\ contracts' = contracts
      ]_vars

\* C21: every stored event ends strictly after it starts, and every
\* create_event or update_event step that returns an event returns one that
\* ends strictly after it starts.
\* (The code violates this: both compare with end < start, so an event that
\* ends at the instant it starts is accepted.)
C21_EndStrictlyAfterStart ==
    /\ [](\A e \in EventIds :
            events[e].event_date_end > events[e].event_date_start)
    /\ [][(ret'.op \in {"create_event", "update_event"} /\ ret'.exc = "") =>
             events'[ret'.id].event_date_end
                 > events'[ret'.id].event_date_start]_vars

\* C22: every attempt to set an event's support contact, by assign_support
\* or by update_event, made by a user who is not of the management raises
\* EventError and leaves the events as they were; made by a user of the
\* management, for an existing event and an existing active Support user,
\* it succeeds and the event has that support contact.
\* (The code violates this: update_event has no support_contact_id
\* parameter, so the call raises TypeError whoever makes it.)
C22_OnlyManagementAssigns ==
    [][\A u \in SupportCallers, e \in 1..MaxEvents, p \in SupportTargets :
          (assign_support(u, e, p) \/ update_event_support_contact_id(u, e, p))
          => IF users[u].role # MANAGEMENT
             THEN ret'.exc = "EventError" /\ events' = events
             ELSE (/\ e \in EventIds
                   /\ p \in UserIds
                   /\ users[p].role = SUPPORT
                   /\ users[p].is_active)
                  => /\ ret'.exc = ""
                     /\ events'[e].support_contact_id = p
      ]_vars

\* C28: in every state, every event that has a support contact has one that
\* is a row of the users table whose role is Support.
\* (The code violates this: update_user changes the role of a user who is
\* the support contact of an event, and the event keeps that contact.)
C28_SupportContactIsSupport ==
    \A e \in EventIds :
        events[e].support_contact_id # 0 =>
            /\ events[e].support_contact_id \in UserIds
            /\ users[events[e].support_contact_id].role = SUPPORT

\* C23: every create_event step that returns an event was made by a user who
\* holds event.create, for an existing signed contract whose client exists
\* and has that user as sales contact; and every create_event step that
\* raises leaves the events as they were.
\* (The code violates this: the ownership check is skipped when the contract
\* has no client, so a Sales user creates an event on an orphaned contract.)
C23_CreateEventGate ==
    [][\A u \in UserIds, c \in 1..MaxContracts, s \in Dates, e \in Dates,
          a \in {0, 1} :
          create_event(u, c, s, e, "Lyon", a, None) =>
              IF ret'.exc = ""
              THEN /\ has_permission(users[u], "event.create")
                   /\ c \in ContractIds
                   /\ contracts[c].is_signed
                   /\ ~IsNone(ContractClient(contracts[c]))
                   /\ Val(ContractClient(contracts[c])).sales_contact_id = u
              ELSE events' = events
      ]_vars

\* C27: in every state, every stored event references a stored contract
\* whose is_signed flag is true.
\* (The code violates this: update_contract sets is_signed to False on a
\* contract that has events.)
C27_EventsOnSignedContracts ==
    \A e \in EventIds :
        /\ events[e].contract_id \in ContractIds
        /\ contracts[events[e].contract_id].is_signed

\* C24 as stated: record_payment raises for an amount <= 0 and for an amount
\* above amount_due; when it succeeds the user is one allowed to update the
\* contract (of the management, or the sales contact of its client),
\* amount_due has decreased by exactly the amount and is >= 0, and nothing
\* else of the contract has changed; when it raises, the contracts are as
\* they were.
\* (Violated: the column keeps two decimals, so a payment that is not a whole
\* number of cents decreases amount_due by the amount rounded.)
C24_RecordPayment ==
    [][\A u \in PaymentCallers, c \in 1..MaxContracts, a \in PaymentAmounts :
          record_payment(u, c, a) =>
              LET client == ContractClient(contracts[c])
              IN
              IF ret'.exc = ""
              THEN /\ a > 0
                   /\ a <= contracts[c].amount_due
                   /\ \/ users[u].role = MANAGEMENT
                      \/ /\ users[u].role = SALES
                         /\ ~IsNone(client)
                         /\ Val(client).sales_contact_id = u
                   /\ contracts' = [contracts EXCEPT
                          ![c].amount_due = contracts[c].amount_due - a]
                   /\ contracts'[c].amount_due >= 0
              ELSE /\ ret'.exc = "ContractError"
                   /\ contracts' = contracts
      ]_vars

\* C24, amended: as above, except that on success amount_due has become the
\* former amount_due less the amount, rounded to the cent (so it has
\* decreased by exactly the amount when the amount is a whole number of
\* cents, and by at most half a cent more or less otherwise), and is >= 0.
C24_RecordPaymentRounded ==
    [][\A u \in PaymentCallers, c \in 1..MaxContracts, a \in PaymentAmounts :
          record_payment(u, c, a) =>
              LET client == ContractClient(contracts[c])
              IN
              IF ret'.exc = ""
              THEN /\ a > 0
                   /\ a <= contracts[c].amount_due
                   /\ \/ users[u].role = MANAGEMENT
                      \/ /\ users[u].role = SALES
                         /\ ~IsNone(client)
                         /\ Val(client).sales_contact_id = u
                   /\ contracts' = [contracts EXCEPT
                          ![c].amount_due =
                              Numeric(contracts[c].amount_due - a)]
                   /\ (a = Numeric(a)) =>
                          contracts'[c].amount_due
                              = contracts[c].amount_due - a
                   /\ contracts'[c].amount_due >= 0
                   /\ contracts'[c].amount_due <= contracts[c].amount_due
              ELSE /\ ret'.exc = "ContractError"
                   /\ contracts' = contracts
      ]_vars

\* C24 witness: record_payment has just succeeded and left one cent due.
C24_Witness ==
    /\ ret = OkRow("record_payment", 1)
    /\ contracts[1].amount_due = Cents(1)
    /\ contracts[1].total_amount = Cents(3)

\* C30: in every state, every stored contract has 0 <= amount_due and
\* amount_due <= total_amount.
\* (The code violates this: create_contract and update_contract store the
\* amounts they are given, negative or above the total.)
C30_AmountDueWithinTotal ==
    \A c \in ContractIds :
        /\ 0 <= contracts[c].amount_due
        /\ contracts[c].amount_due <= contracts[c].total_amount

\* C25: a login fails exactly when the email is that of no user, the user
\* is inactive or the password is not the user's; every authenticate_user
\* step that fails leaves the token file, the users and the clock as they
\* were, so that when the file held the live session of a user,
\* get_authenticated_user still returns that user.
C25_FailedLoginKeepsSession ==
    /\ [](\A e \in LoginEmails, p \in LoginPasswords :
            LET id == UserByEmail(Lower(e))
            IN (AuthenticateResult(e, p).exc # "") <=>
                  \/ id = 0
                  \/ ~users[id].is_active
                  \/ users[id].password_hash # hash_password(p))
    /\ [][(ret'.op = "authenticate_user" /\ ret'.exc # "") =>
             /\ token_file' = token_file
             /\ users' = users
             /\ now' = now
             /\ SlotLive =>
                    /\ SlotLive'
                    /\ GetAuthenticatedResult'.ret =
                           OkRow("get_authenticated_user", token_file.sub)
                    /\ GetAuthenticatedResult'.file = token_file
         ]_vars

\* C25 witness: a login has just been refused because the account is
\* deactivated, while the file holds the live session of another user.
C25_Witness ==
    /\ ret = Raise("authenticate_user", "AuthenticationError", MsgDeactivated)
    /\ SlotLive
    /\ \E u \in UserIds : u # token_file.sub /\ ~users[u].is_active

\* C29: whenever the file holds the live session of a user,
\* get_authenticated_user returns that user, whose permissions and
\* ownership decisions are those of the role stored in the users table,
\* whatever role claim the token carries; and every get_authenticated_user
\* step that succeeds returns the user the token names, as stored.
C29_StoredRoleDecides ==
    /\ [](SlotLive =>
            LET u == token_file.sub
                role == users[u].role
                own == [support_contact_id |-> u, contract_id |-> 1,
                        event_date_start |-> 1, event_date_end |-> 2,
                        location |-> "Lyon", attendees |-> 1, notes |-> None]
            IN /\ GetAuthenticatedResult.ret
                      = OkRow("get_authenticated_user", u)
               /\ get_current_user(token_file) = u
               /\ get_user_permissions(users[u]) = PERMISSIONS[role]
               /\ \A perm \in UNION {PERMISSIONS[r] : r \in RoleEnum} :
                     has_permission(users[u], perm)
                         <=> perm \in PERMISSIONS[role]
               /\ can_modify_event(u, own) <=> role \in {MANAGEMENT, SUPPORT})
    /\ [][(ret'.op = "get_authenticated_user" /\ ret'.exc = "") =>
             /\ ret'.id = token_file.sub
             /\ users' = users
             /\ token_file' = token_file]_vars

\* C29 witness: get_authenticated_user has just returned a user whose stored
\* role is no longer the role claim of the token of the session.
C29_Witness ==
    /\ SlotLive
    /\ ret = OkRow("get_authenticated_user", token_file.sub)
    /\ token_file.role # users[token_file.sub].role
    /\ has_permission(users[token_file.sub], "client.create")
    /\ token_file.role = MANAGEMENT

====
